---- MODULE Spec2Model ----
(***************************************************************************)
(* The achievement execution engine: the sliding-window rate limiter       *)
(* (utils/rateLimiter.ts), the JSON progress store (db/database.ts), the   *)
(* concurrency runner (utils/timing.ts) and BaseAchievement.execute()      *)
(* (achievements/base.ts).                                                 *)
(*                                                                         *)
(* Atomicity follows the JavaScript event loop: an action is the code that *)
(* runs between two suspension points (a timer, or the recipe's API call). *)
(***************************************************************************)
EXTENDS Integers, Sequences, FiniteSets, TLC

VARIABLES
  now,                \* Date.now(), in ms
  requestTimestamps,  \* RateLimiter.requestTimestamps
  activeRequests,     \* RateLimiter.activeRequests
  rlConfig,           \* RateLimiter.config
  callerPc,           \* position of each direct acquire()/release() client
  callerWake,         \* when that client's setTimeout fires
  grants,             \* history: the instants at which an acquire() completed
  polls,              \* history: how many passes of acquire()'s loop found no slot
  config,             \* AppConfig: concurrency, maxRequestsPerMinute, delayMs
  achievements,       \* DatabaseData.achievements, saved on every mutation
  operations,         \* DatabaseData.operations
  nextOperationId,    \* DatabaseData.nextOperationId
  dbShape,            \* which fields the object that loadDatabase() returned has
  onProgress,         \* the callback given to setProgressCallback: how it ends
  exec,               \* per achievement kind: the locals of a running execute()
  workers,            \* per kind: the executeNext() workers of runWithConcurrency
  result,             \* per kind: what the last execute() returned
  hist,               \* per kind, history: what the current execute() found and did
  crashStuck,         \* history: ids of the records in_progress at the last process stop
  execCalls,          \* history: number of execute() calls so far
  rt,                 \* one call of retry(fn, options): its locals and its history
  files,              \* the store files on disk, one per DB_PATH
  currentUsername,    \* database.ts: currentUsername, "none" for null
  dbLoaded,           \* database.ts: db !== null
  acked,              \* history, per file: the data after the last mutation that returned
  lastOp,             \* history: the last store call, what it returned, whether it threw
  storeCalls,         \* history: number of mutating store calls so far
  recipe              \* one workflow instance: its initialized flag and its operations

rlVars == <<requestTimestamps, activeRequests, rlConfig, grants, polls>>
callerVars == <<callerPc, callerWake>>
storeVars == <<achievements, operations, nextOperationId, dbShape>>
runVars == <<config, onProgress, exec, workers, result, hist, crashStuck, execCalls>>

retryVars == <<rt>>
recipeVars == <<recipe>>
diskVars == <<files, currentUsername, dbLoaded, acked, lastOp, storeCalls>>

vars == <<now, rlVars, callerVars, storeVars, runVars, retryVars, diskVars, recipeVars>>

----------------------------------------------------------------------------
(* Bounds of the model *)

MaxNow == 90100
MaxPolls == 2
MaxTarget == 2
MaxExecs == 2
MaxRetries == 2
MaxStoreCalls == 2
MaxOps == 3

Callers == {"c1", "c2", "c3"}

----------------------------------------------------------------------------
(* utils/rateLimiter.ts *)

WindowMs == 60000
BufferMs == 100
ConcurrentWaitMs == 50
YieldMs == 10

Max(x, y) == IF x >= y THEN x ELSE y

\* the larger of the two, where the smaller is asked for
larger(x, y) == IF x >= y THEN x ELSE y

Min(x, y) == IF x <= y THEN x ELSE y

\* a window that is one millisecond short
cleanupShortWindow(ts, t) == SelectSeq(ts, LAMBDA x : x > t - WindowMs + 1)

\* this.requestTimestamps.filter(ts => ts > Date.now() - 60000)
cleanupOldTimestamps(ts, t) == SelectSeq(ts, LAMBDA x : x > t - WindowMs)

\* a check that forgets the concurrency cap
canProceedRateOnly(ts, active, cfg, t) ==
  Len(cleanupOldTimestamps(ts, t)) < cfg.maxPerMinute

\* canProceed(), evaluated on the cleaned-up list
canProceed(ts, active, cfg, t) ==
  /\ active < cfg.maxConcurrent
  /\ Len(cleanupOldTimestamps(ts, t)) < cfg.maxPerMinute

\* a wait that ends when the oldest timestamp reaches the edge of the window
getWaitTimeNoBuffer(ts, active, cfg, t) ==
  LET cl == cleanupOldTimestamps(ts, t) IN
  IF Len(cl) >= cfg.maxPerMinute
    THEN IF Len(cl) = 0 THEN 0 ELSE Max(0, (cl[1] + WindowMs) - t)
    ELSE IF active >= cfg.maxConcurrent THEN ConcurrentWaitMs ELSE 0

getWaitTime(ts, active, cfg, t) ==
  LET cl == cleanupOldTimestamps(ts, t) IN
  IF Len(cl) >= cfg.maxPerMinute
    THEN IF Len(cl) = 0 THEN 0 ELSE Max(0, (cl[1] + WindowMs) - t + BufferMs)
    ELSE IF active >= cfg.maxConcurrent THEN ConcurrentWaitMs ELSE 0

\* the delay of the setTimeout a blocked acquire() waits on
acquireSleep(ts, active, cfg, t) ==
  LET w == getWaitTime(ts, active, cfg, t) IN IF w > 0 THEN w ELSE YieldMs

\* a release() that gives nothing back
releaseNothing(active) == active

\* release(): Math.max(0, activeRequests - 1)
release(active) == Max(0, active - 1)

\* the last n entries of the history
LastGrants(g, n) == IF Len(g) <= n THEN g ELSE SubSeq(g, Len(g) - n + 1, Len(g))

----------------------------------------------------------------------------
(* utils/timing.ts: retry and its backoff; utils/errors.ts: the error      *)
(* classes; github/client.ts: request(), the retry of the API transport    *)

MaxDelay == 60000
DefaultDelay == 1000

\* options.baseDelay: the default, and one that reaches the cap on the
\* second backoff
BaseDelays == {DefaultDelay, 30000}

\* client.ts 152-153: the options request() passes to retry
RequestMaxRetries == 3
RequestBaseDelay == 1000

\* client.ts 141-144: the wait of request() for a reset less than a minute away
ResetHorizonMs == 60000
ResetExtraMs == 1000

\* the errors an operation can throw: a class and, where the class has
\* one, a status code or the distance of the reset time from the throw
ErrorValues ==
  [cls : {"RateLimitError"}, statusCode : {0}, resetIn : {-1000, 500, 60000}]
    \cup [cls : {"NetworkError", "AuthenticationError", "RepositoryNotFoundError",
                 "InsufficientPermissionsError", "Error"},
          statusCode : {0}, resetIn : {0}]
    \cup [cls : {"GitHubAPIError"}, statusCode : {404, 499, 500}, resetIn : {0}]

NoError == [cls |-> "none", statusCode |-> 0, resetIn |-> 0]

\* Math.random() * 1000 lies in [0, 1000); the timer counts whole milliseconds
Jitters == {0, 999}

RECURSIVE Pow2(_)
Pow2(k) == IF k = 0 THEN 1 ELSE 2 * Pow2(k - 1)

\* a backoff without the cap
getBackoffDelayUncapped(attempt, baseDelay, jitter) == baseDelay * Pow2(attempt) + jitter

\* getBackoffDelay(attempt, baseDelay) for one value of the jitter
getBackoffDelay(attempt, baseDelay, jitter) ==
  Min(baseDelay * Pow2(attempt) + jitter, MaxDelay)

\* a predicate that retries nothing
shouldRetryNothing(policy, error) == FALSE

\* options.shouldRetry: the default () => true, or the transport's predicate
\* (client.ts 154-159)
shouldRetry(policy, error) ==
  IF policy = "always" THEN TRUE
  ELSE \/ error.cls = "RateLimitError"
       \/ error.cls = "NetworkError"
       \/ error.cls = "GitHubAPIError" /\ error.statusCode >= 500

\* a test that stops only when the attempts are used up
giveUpWhenExhausted(attempt, maxRetries, policy, error) == attempt = maxRetries

\* a test that stops only on the predicate
giveUpOnPredicate(attempt, maxRetries, policy, error) == ~shouldRetry(policy, error)

\* timing.ts 103: attempt === maxRetries || !shouldRetry(error)
giveUp(attempt, maxRetries, policy, error) ==
  attempt = maxRetries \/ ~shouldRetry(policy, error)

IdleRetry ==
  [pc |-> "idle", maxRetries |-> 0, baseDelay |-> 0, policy |-> "always", viaRequest |-> FALSE,
   attempt |-> 0, wake |-> 0, error |-> NoError, outcome |-> "none",
   calls |-> <<>>, observed |-> <<>>, thrown |-> <<>>, waits |-> <<>>]

----------------------------------------------------------------------------
(* db/database.ts: every operator below is a mutation followed by its       *)
(* saveDatabase(), or a read of the in-memory data                          *)

Kinds == {"pull-shark"}

\* the four tiers; tier i asks for i operations (the counts of tierCounts,
\* scaled down to the bounds of the model)
Tiers == <<"default", "bronze", "silver", "gold">>

\* an upsert that always writes a new record
upsertFresh(achs, id, tier, targetCount, t) ==
  [k \in DOMAIN achs \cup {id} |->
     IF k = id
       THEN [tier |-> tier, targetCount |-> targetCount, completedCount |-> 0,
             status |-> "pending", createdAt |-> t, updatedAt |-> t]
       ELSE achs[k]]

\* t is new Date() at the call
upsertAchievement(achs, id, tier, targetCount, t) ==
  IF id \in DOMAIN achs
    THEN [achs EXCEPT ![id].tier = tier, ![id].targetCount = targetCount,
                      ![id].updatedAt = t]
    ELSE [k \in DOMAIN achs \cup {id} |->
            IF k = id
              THEN [tier |-> tier, targetCount |-> targetCount, completedCount |-> 0,
                    status |-> "pending", createdAt |-> t, updatedAt |-> t]
              ELSE achs[k]]

updateAchievementStatus(achs, id, status, t) ==
  IF id \in DOMAIN achs
    THEN [achs EXCEPT ![id].status = status, ![id].updatedAt = t]
    ELSE achs

updateAchievementProgress(achs, id, completedCount, t) ==
  IF id \in DOMAIN achs
    THEN [achs EXCEPT ![id].completedCount = completedCount, ![id].updatedAt = t]
    ELSE achs

\* createOperation() with status in_progress; the new id is nextOperationId
\* a createOperation that stores nothing
createNothing(ops, id, achievementId, operationNumber) == ops

createOperation(ops, id, achievementId, operationNumber) ==
  Append(ops, [id |-> id, achievementId |-> achievementId,
               operationNumber |-> operationNumber, status |-> "in_progress"])

updateOperation(ops, id, status) ==
  [i \in 1..Len(ops) |-> IF ops[i].id = id THEN [ops[i] EXCEPT !.status = status] ELSE ops[i]]

\* a reset that does not look at the kind
resetEveryKind(ops, achievementId) ==
  [i \in 1..Len(ops) |->
     IF ops[i].status = "in_progress" THEN [ops[i] EXCEPT !.status = "pending"] ELSE ops[i]]

\* a reset that leaves everything as it is
resetNothing(ops, achievementId) == ops

resetStuckOperations(ops, achievementId) ==
  [i \in 1..Len(ops) |->
     IF ops[i].achievementId = achievementId /\ ops[i].status = "in_progress"
       THEN [ops[i] EXCEPT !.status = "pending"]
       ELSE ops[i]]

\* a resume set that takes every recorded attempt for a completion
getAttemptedOperationNumbers(ops, achievementId) ==
  {ops[i].operationNumber : i \in {j \in 1..Len(ops) : ops[j].achievementId = achievementId}}

\* a resume set that is always empty
getNoOperationNumbers(ops, achievementId) == {}

getCompletedOperationNumbers(ops, achievementId) ==
  {ops[i].operationNumber :
     i \in {j \in 1..Len(ops) :
              ops[j].achievementId = achievementId /\ ops[j].status = "completed"}}

\* how many records resetStuckOperations() resets: its return value
resetCount(ops, achievementId) ==
  Cardinality({i \in 1..Len(ops) :
                 ops[i].achievementId = achievementId /\ ops[i].status = "in_progress"})

\* the kinds and the users the store is called for
StoreKinds == {"pull-shark", "quickdraw"}
Users == {"alice", "bob"}

\* DB_PATH: achievements-data.json, or achievements-data-<username>.json
Paths == Users \cup {"default"}
pathOf(username) == IF username = "none" THEN "default" ELSE username

\* loadDatabase()'s empty state
EmptyData == [achievements |-> <<>>, operations |-> <<>>, nextOperationId |-> 1]

\* a file: absent, not parseable ("garbage"), or JSON text ("data") of an
\* object with the fields that shape says
Absent == [kind |-> "absent", shape |-> "full", data |-> EmptyData]
Garbage == [kind |-> "garbage", shape |-> "full", data |-> EmptyData]
NoAchievementsFile == [kind |-> "data", shape |-> "noAchievements", data |-> EmptyData]
NoOperationsFile == [kind |-> "data", shape |-> "noOperations", data |-> EmptyData]

\* a load that takes every file that exists for a store of full shape

\* loadDatabase(): JSON.parse(content) as DatabaseData, or the empty state
\* when the file is absent or the read or the parse throws
loadDatabase(file) ==
  IF file.kind = "data" THEN [shape |-> file.shape, data |-> file.data]
  ELSE [shape |-> "full", data |-> EmptyData]

\* the file a run interrupted after its first operation leaves: one record of
\* the achievement, one operation of it and one of another achievement
Populated ==
  [kind |-> "data", shape |-> "full",
   data |-> [achievements |->
               [k \in {"pull-shark"} |->
                  [tier |-> Tiers[2], targetCount |-> 2, completedCount |-> 1,
                   status |-> "in_progress", createdAt |-> 0, updatedAt |-> 0]],
             operations |->
               <<[id |-> 1, achievementId |-> "pull-shark", operationNumber |-> 2,
                  status |-> "in_progress"],
                 [id |-> 2, achievementId |-> "quickdraw", operationNumber |-> 1,
                  status |-> "in_progress"]>>,
             nextOperationId |-> 3]]

NoOp == [op |-> "none", id |-> "none", arg |-> 0, ret |-> 0, threw |-> FALSE]

----------------------------------------------------------------------------
(* utils/timing.ts: runWithConcurrency, and achievements/base.ts: execute() *)

Errors == {"boom", "bang"}

IdleExec ==
  [pc |-> "idle", targetCount |-> 0, completedOperations |-> {}, completed |-> 0,
   pendingOps |-> <<>>, currentIndex |-> 0, results |-> <<>>, completedCount |-> 0]

NoResult == [returned |-> FALSE]

\* history of one execute() call: what it found in the store, the task list it
\* built, the indexes claimed, slots taken and given back, outcomes, progress
\* calls, and what the runner returned
NoHist ==
  [preCompleted |-> {}, stuck |-> {}, attempted |-> {}, succeeded |-> {}, failed |-> {},
   failedOps |-> {}, escaped |-> "none",
   tasks |-> <<>>, concurrency |-> 0, claimed |-> <<>>, acquired |-> <<>>,
   released |-> <<>>, activeBefore |-> 0, thrown |-> {}, calls |-> <<>>,
   resolved |-> FALSE, runner |-> <<>>, steps |-> <<>>]

\* the steps of the task of an index so far, in the order they were taken
Stepped(h, index, names) == [h EXCEPT !.steps[index].log = @ \o names]

\* a counter that stays where it is
sameCount(completedCount) == completedCount

\* timing.ts 285: completedCount++
nextCount(completedCount) == completedCount + 1

\* a runner entry that always reports success
taskSucceeded(ok, index, err, value) ==
  [success |-> TRUE, index |-> index, error |-> "none", result |-> value]

\* timing.ts 280-284: { success: true, result, index } or
\* { success: false, error, index }
taskResult(ok, index, err, value) ==
  [success |-> ok, index |-> index,
   error |-> IF ok THEN "none" ELSE err,
   result |-> IF ok THEN value ELSE 0]

\* for (i = 1; i <= targetCount; i++) if (!completedOperations.has(i)) push(i)
RECURSIVE pendingFrom(_, _, _)
pendingFrom(i, targetCount, completedOperations) ==
  IF i > targetCount THEN <<>>
  ELSE IF i \in completedOperations
    THEN pendingFrom(i + 1, targetCount, completedOperations)
    ELSE <<i>> \o pendingFrom(i + 1, targetCount, completedOperations)

\* results left in the order the tasks settled
unsortedResults(rs) == rs

\* results.sort((a, b) => a.index - b.index); the indexes are distinct
RECURSIVE sortResults(_)
sortResults(rs) ==
  IF rs = <<>> THEN <<>>
  ELSE LET m == CHOOSE i \in 1..Len(rs) : \A j \in 1..Len(rs) : rs[i].index <= rs[j].index
       IN <<rs[m]>> \o sortResults(SubSeq(rs, 1, m - 1) \o SubSeq(rs, m + 1, Len(rs)))

\* the errors list: one "Operation <index + 1>: <message>" per failed result
RECURSIVE collectErrors(_)
collectErrors(rs) ==
  IF rs = <<>> THEN <<>>
  ELSE (IF ~rs[1].success /\ rs[1].error \in Errors
          THEN <<[operation |-> rs[1].index + 1, message |-> rs[1].error]>>
          ELSE <<>>) \o collectErrors(Tail(rs))

successCount(rs) == Cardinality({i \in 1..Len(rs) : rs[i].success})

\* base.ts 184-217: process the results, set the final status, return
Complete(s, a) ==
  LET results == sortResults(s.ex.results)
      completed == Cardinality(s.ex.completedOperations) + successCount(results)
      finalStatus == IF completed >= s.ex.targetCount THEN "completed" ELSE "failed"
  IN [s EXCEPT
        !.h.resolved = TRUE,
        !.h.runner = results,
        !.achs = updateAchievementStatus(s.achs, a, finalStatus, s.t),
        !.res = [returned |-> TRUE,
                 success |-> completed >= s.ex.targetCount,
                 completedOperations |-> completed,
                 totalOperations |-> s.ex.targetCount,
                 errors |-> collectErrors(results)],
        !.ex = [IdleExec EXCEPT !.pc = "done"],
        !.ws = <<>>]

\* a catch block that returns no message
CaughtSilently(s, a, err) ==
  [s EXCEPT
     !.achs = updateAchievementStatus(s.achs, a, "failed", s.t),
     !.res = [returned |-> TRUE,
              success |-> FALSE,
              completedOperations |-> s.ex.completed,
              totalOperations |-> s.ex.targetCount,
              errors |-> <<>>],
     !.ex.pc = "caught"]

\* base.ts 218-232: the catch block of execute(); nothing has been pushed to
\* errors before the aggregation loop, so the message is the only entry
Caught(s, a, err) ==
  [s EXCEPT
     !.achs = updateAchievementStatus(s.achs, a, "failed", s.t),
     !.res = [returned |-> TRUE,
              success |-> FALSE,
              completedOperations |-> s.ex.completed,
              totalOperations |-> s.ex.targetCount,
              errors |-> <<[operation |-> 0, message |-> err]>>],
     !.ex.pc = "caught"]

\* timing.ts 297: Promise.all(workers) resolves when every executeNext() has
\* returned; it has rejected already when one of them threw, and then the
\* last worker to leave ends what is left of the call
Settle(s, a) ==
  IF \A v \in 1..Len(s.ws) : s.ws[v].pc \in {"finished", "dead"}
    THEN IF s.ex.pc = "running"
           THEN Complete(s, a)
           ELSE [s EXCEPT !.ex = [IdleExec EXCEPT !.pc = "done"], !.ws = <<>>]
    ELSE s

\* One pass of acquire()'s loop for worker w's task and, once it has the slot,
\* base.ts 142-150: createOperation(in_progress) and the start of the recipe.
Poll(s, a, w, t) ==
  LET cfg == s.cfg IN
  IF canProceed(s.ts, s.active, cfg, t)
    THEN [s EXCEPT
            !.active = s.active + 1,
            !.ts = Append(cleanupOldTimestamps(s.ts, t), t),
            !.grants = LastGrants(Append(s.grants, t), cfg.maxPerMinute + 1),
            !.ops = createOperation(s.ops, s.nextId, a, s.ws[w].opNum),
            !.nextId = s.nextId + 1,
            !.ws[w].pc = "recipe",
            !.ws[w].operationId = s.nextId,
            !.ws[w].wake = 0,
            !.h.attempted = s.h.attempted \cup {s.ws[w].opNum},
            !.h.acquired = Append(s.h.acquired, s.ws[w].index),
            !.h.steps = (s.ws[w].index :>
                           [operationId |-> s.nextId,
                            log |-> <<"acquire", "create", "recipe">>]) @@ s.h.steps]
    ELSE [s EXCEPT
            !.ts = cleanupOldTimestamps(s.ts, t),
            !.polls = s.polls + 1,
            !.ws[w].pc = "sleep",
            !.ws[w].wake = t + acquireSleep(s.ts, s.active, cfg, t)]

\* timing.ts 274-279: the worker claims the next index and calls its task,
\* or leaves the loop; Promise.all resolves when the last worker has left.
WorkerLoop(s, a, w, t) ==
  IF s.ex.currentIndex < Len(s.ex.pendingOps)
    THEN LET index == s.ex.currentIndex
             s1 == [s EXCEPT !.ex.currentIndex = index + 1,
                             !.h.claimed = Append(s.h.claimed, index),
                             !.ws[w].index = index,
                             !.ws[w].opNum = s.ex.pendingOps[index + 1]]
         IN Poll(s1, a, w, t)
    ELSE Settle([s EXCEPT !.ws[w].pc = "finished"], a)

\* what a call of the progress callback can do
CallbackOutcomes == IF onProgress = "mayThrow" THEN {"returns", "throws"} ELSE {"returns"}

\* base.ts 168-170 and timing.ts 280-288: release(), the result is pushed,
\* the progress callback stores completedOperations.size + done and calls
\* reportProgress(); next task, or executeNext() rejects where onProgress threw.
Finish(s, a, w, ok, err, cb, t) ==
  LET done == nextCount(s.ex.completedCount)
      completed == Cardinality(s.ex.completedOperations) + done
      s1 == [s EXCEPT
               !.active = release(s.active),
               !.h = Stepped(s.h, s.ws[w].index, <<"release">>),
               !.ex.results = Append(s.ex.results,
                  taskResult(ok, s.ws[w].index, err, s.ws[w].opNum)),
               !.ex.completedCount = done,
               !.ex.completed = completed,
               !.achs = updateAchievementProgress(s.achs, a, completed, t),
               !.h.succeeded = IF ok THEN s.h.succeeded \cup {s.ws[w].index}
                               ELSE s.h.succeeded,
               !.h.failed = IF ok THEN s.h.failed ELSE s.h.failed \cup {s.ws[w].index},
               !.h.failedOps = IF ok THEN s.h.failedOps
                               ELSE s.h.failedOps \cup {s.ws[w].opNum},
               !.h.released = Append(s.h.released, s.ws[w].index),
               !.h.thrown = IF ok THEN s.h.thrown
                            ELSE s.h.thrown \cup {<<s.ws[w].index, err>>},
               !.h.calls = Append(s.h.calls,
                  [done |-> done, total |-> Len(s.ex.pendingOps), completed |-> completed,
                   settled |-> Len(s.ex.results) + 1,
                   succeeded |-> Cardinality(s.h.succeeded) + (IF ok THEN 1 ELSE 0)])]
  IN IF cb = "returns"
       THEN WorkerLoop(s1, a, w, t)
       ELSE LET s2 == [s1 EXCEPT !.ws[w].pc = "dead"]
                s3 == [s2 EXCEPT !.h.escaped = "callback"]
            IN Settle(IF s2.ex.pc = "running" THEN Caught(s3, a, "callback") ELSE s2, a)

\* timing.ts 293-295: the workers start one after the other, each running to
\* its first suspension point
RECURSIVE StartWorkers(_, _, _, _)
StartWorkers(s, a, w, t) ==
  IF w > Len(s.ws) THEN s ELSE StartWorkers(WorkerLoop(s, a, w, t), a, w + 1, t)

NewWorker == [pc |-> "new", index |-> 0, opNum |-> 0, operationId |-> 0, wake |-> 0]

\* execute() throws before its try block: the promise it returned rejects
Rejected(s) ==
  [s EXCEPT !.ex = [IdleExec EXCEPT !.pc = "rejected"], !.ws = <<>>, !.res = NoResult]

\* base.ts 94-182: execute() up to the first suspension point.  The store
\* calls of base.ts 101-112 read database.achievements[id] and iterate
\* database.operations: a TypeError where the loaded object lacks the field.
Begin(s, a, tier, targetCount, cfg, t) ==
  LET s0 == [s EXCEPT !.cfg = [maxPerMinute |-> cfg.maxRequestsPerMinute,
                               maxConcurrent |-> cfg.concurrency],
                      !.res = NoResult]
      achs1 == upsertAchievement(s.achs, a, tier, targetCount, t)
      achs2 == updateAchievementStatus(achs1, a, "in_progress", t)
      ops1 == resetStuckOperations(s.ops, a)
      completedOperations == getCompletedOperationNumbers(ops1, a)
      concurrency == IF cfg.concurrency = 0 THEN 3 ELSE cfg.concurrency
      pendingOps == pendingFrom(1, targetCount, completedOperations)
      s1 == [s0 EXCEPT
               !.h.tasks = pendingOps,
               !.h.concurrency = concurrency,
               !.h.activeBefore = s.active,
               !.achs = achs2,
               !.ops = ops1,
               !.ex = [pc |-> "running", targetCount |-> targetCount,
                       completedOperations |-> completedOperations,
                       completed |-> Cardinality(completedOperations),
                       pendingOps |-> pendingOps, currentIndex |-> 0,
                       results |-> <<>>, completedCount |-> 0],
               !.ws = [v \in 1..Min(concurrency, Len(pendingOps)) |-> NewWorker]]
  IN IF s.shape = "noAchievements" THEN Rejected(s0)
     ELSE IF s.shape = "noOperations" THEN Rejected([s0 EXCEPT !.achs = achs2])
     ELSE IF pendingOps = <<>> THEN Complete(s1, a)
     ELSE StartWorkers(s1, a, 1, t)

----------------------------------------------------------------------------
(* Direct clients of one RateLimiter: acquire(), hold, release() *)

\* One pass of acquire()'s loop: entered on the call, and again on each timer.
RLAcquire(c) ==
  /\ \/ callerPc[c] = "idle"
     \/ callerPc[c] = "waiting" /\ now >= callerWake[c]
  /\ IF canProceed(requestTimestamps, activeRequests, rlConfig, now)
       THEN /\ activeRequests' = activeRequests + 1
            /\ requestTimestamps' = Append(cleanupOldTimestamps(requestTimestamps, now), now)
            /\ grants' = LastGrants(Append(grants, now), rlConfig.maxPerMinute + 1)
            /\ callerPc' = [callerPc EXCEPT ![c] = "holding"]
            /\ callerWake' = [callerWake EXCEPT ![c] = 0]
            /\ UNCHANGED polls
       ELSE /\ polls < MaxPolls
            /\ polls' = polls + 1
            /\ requestTimestamps' = cleanupOldTimestamps(requestTimestamps, now)
            /\ callerWake' = [callerWake EXCEPT ![c] =
                 now + acquireSleep(requestTimestamps, activeRequests, rlConfig, now)]
            /\ callerPc' = [callerPc EXCEPT ![c] = "waiting"]
            /\ UNCHANGED <<activeRequests, grants, recipeVars>>
  /\ UNCHANGED <<now, rlConfig, storeVars, runVars, retryVars, diskVars, recipeVars>>

RLRelease(c) ==
  /\ callerPc[c] = "holding"
  /\ activeRequests' = release(activeRequests)
  /\ callerPc' = [callerPc EXCEPT ![c] = "idle"]
  /\ UNCHANGED <<now, requestTimestamps, rlConfig, callerWake, grants, polls, storeVars, retryVars,
                 diskVars,
                 runVars, recipeVars>>

----------------------------------------------------------------------------
(* The steps of execute() for achievement kind a *)

\* everything a step of execute() for kind a reads and writes
State(a) ==
  [t |-> now, ts |-> requestTimestamps, active |-> activeRequests, cfg |-> rlConfig,
   grants |-> grants, polls |-> polls,
   achs |-> achievements, ops |-> operations, nextId |-> nextOperationId,
   shape |-> dbShape,
   ex |-> exec[a], ws |-> workers[a], res |-> result[a], h |-> hist[a]]

Becomes(a, s) ==
  /\ s.polls <= MaxPolls
  /\ requestTimestamps' = s.ts
  /\ activeRequests' = s.active
  /\ rlConfig' = s.cfg
  /\ grants' = s.grants
  /\ polls' = s.polls
  /\ achievements' = s.achs
  /\ operations' = s.ops
  /\ nextOperationId' = s.nextId
  /\ exec' = [exec EXCEPT ![a] = s.ex]
  /\ workers' = [workers EXCEPT ![a] = s.ws]
  /\ result' = [result EXCEPT ![a] = s.res]
  /\ hist' = [hist EXCEPT ![a] = s.h]
  /\ UNCHANGED <<now, callerVars, dbShape, config, onProgress, retryVars, diskVars, recipeVars>>

\* history: the sequence numbers with a completed record, read off the store
CompletedBefore(a) ==
  {n \in 1..MaxTarget :
     \E i \in 1..Len(operations) :
       /\ operations[i].achievementId = a
       /\ operations[i].operationNumber = n
       /\ operations[i].status = "completed"}

IdsOf(a) == {operations[i].id : i \in {j \in 1..Len(operations) : operations[j].achievementId = a}}

\* new Achievement(config, tier, targetCount).execute(), to its first await
ExecuteStart(a, n) ==
  /\ exec[a].pc \in {"idle", "done", "rejected"}
  /\ execCalls < MaxExecs
  /\ LET s0 == [State(a) EXCEPT
                  !.h = [NoHist EXCEPT !.preCompleted = CompletedBefore(a),
                                       !.stuck = crashStuck \cap IdsOf(a)]]
     IN Becomes(a, Begin(s0, a, Tiers[n], n, config, now))
  /\ execCalls' = execCalls + 1
  /\ crashStuck' = crashStuck \ IdsOf(a)

\* worker w of the call is alive; it stays so after the catch block returned
Running(a, w) == exec[a].pc \in {"running", "caught"} /\ w \in 1..Len(workers[a])

\* the timer of a blocked acquire() fires
AcquireWake(a, w) ==
  /\ Running(a, w)
  /\ workers[a][w].pc = "sleep"
  /\ now >= workers[a][w].wake
  /\ Becomes(a, Poll(State(a), a, w, now))
  /\ UNCHANGED <<crashStuck, execCalls, recipeVars>>

\* executeOperation(opNum) returns: base.ts 153-165
RecipeReturns(a, w) ==
  /\ Running(a, w)
  /\ workers[a][w].pc = "recipe"
  /\ LET s == State(a)
         s1 == [s EXCEPT !.ops = updateOperation(s.ops, s.ws[w].operationId, "completed"),
                         !.h = Stepped(s.h, s.ws[w].index, <<"complete">>)]
     IN IF config.delayMs > 0
          THEN Becomes(a, [s1 EXCEPT !.ws[w].pc = "delay",
                                     !.ws[w].wake = now + config.delayMs,
                                     !.h = Stepped(s1.h, s.ws[w].index, <<"delay">>)])
          ELSE \E cb \in CallbackOutcomes :
                 Becomes(a, Finish(s1, a, w, TRUE, "none", cb, now))
  /\ UNCHANGED <<crashStuck, execCalls, recipeVars>>

\* executeOperation(opNum) throws
RecipeThrows(a, w) ==
  /\ Running(a, w)
  /\ workers[a][w].pc = "recipe"
  /\ \E err \in Errors, cb \in CallbackOutcomes :
       Becomes(a, Finish(State(a), a, w, FALSE, err, cb, now))
  /\ UNCHANGED <<crashStuck, execCalls, recipeVars>>

\* delay(config.delayMs) is over
DelayDone(a, w) ==
  /\ Running(a, w)
  /\ workers[a][w].pc = "delay"
  /\ now >= workers[a][w].wake
  /\ \E cb \in CallbackOutcomes :
       Becomes(a, Finish(State(a), a, w, TRUE, "none", cb, now))
  /\ UNCHANGED <<crashStuck, execCalls, recipeVars>>

DefaultConfig == [maxPerMinute |-> 15, maxConcurrent |-> 2]

\* The process stops (Ctrl+C, kill): what lives in memory is gone, the saved
\* store stays.  The clock of the next process starts again at 0: nothing
\* that is kept holds a time.
Crash ==
  /\ \E a \in StoreKinds : exec[a].pc # "idle"
  /\ now' = 0
  /\ requestTimestamps' = <<>>
  /\ activeRequests' = 0
  /\ rlConfig' = DefaultConfig
  /\ grants' = <<>>
  /\ exec' = [a \in StoreKinds |-> IdleExec]
  /\ workers' = [a \in StoreKinds |-> <<>>]
  /\ result' = [a \in StoreKinds |-> NoResult]
  /\ hist' = [a \in StoreKinds |-> NoHist]
  /\ crashStuck' = {operations[i].id :
                      i \in {j \in 1..Len(operations) : operations[j].status = "in_progress"}}
  /\ UNCHANGED <<polls, callerVars, storeVars, config, onProgress, execCalls, retryVars,
                 diskVars, recipeVars>>

----------------------------------------------------------------------------
\* The instants at which something can change: a timer fires, a timestamp is
\* about to leave or leaves the window.
Instants ==
  {callerWake[c] : c \in {x \in Callers : callerPc[x] = "waiting"}}
    \cup UNION {{workers[a][w].wake :
                   w \in {v \in 1..Len(workers[a]) : workers[a][v].pc \in {"sleep", "delay"}}} :
                a \in StoreKinds}
    \cup {requestTimestamps[i] + WindowMs - 1 : i \in 1..Len(requestTimestamps)}
    \cup {requestTimestamps[i] + WindowMs : i \in 1..Len(requestTimestamps)}

Tick ==
  /\ \E t \in Instants : t > now /\ t <= MaxNow /\ now' = t
  /\ UNCHANGED <<rlVars, callerVars, storeVars, runVars, retryVars, diskVars, recipeVars>>

\* half a window passes with no timer due
Pass ==
  /\ now + 30000 <= MaxNow
  /\ now' = now + 30000
  /\ UNCHANGED <<rlVars, callerVars, storeVars, runVars, retryVars, diskVars, recipeVars>>

\* the operations that one workflow instance is asked to execute
Ops == 1..MaxOps

\* what getDefaultBranchSha can find as the default branch of the repository
Branches == {"main", "master"}

\* new PairExtraordinaireAchievement(...): defaultBranch = 'main',
\* initialized = false; no executeOperation() called yet; inits counts the
\* passes of initialize() that reached its last line
NewRecipe ==
  [initialized |-> FALSE, defaultBranch |-> "main",
   pc |-> [o \in Ops |-> "idle"], inits |-> 0]

\* a fresh process and an empty store
InitCommon ==
  /\ now = 0
  /\ requestTimestamps = <<>>
  /\ activeRequests = 0
  /\ callerPc = [c \in Callers |-> "idle"]
  /\ callerWake = [c \in Callers |-> 0]
  /\ grants = <<>>
  /\ polls = 0
  /\ achievements = [k \in {} |-> 0]
  /\ operations = <<>>
  /\ nextOperationId = 1
  /\ exec = [a \in StoreKinds |-> IdleExec]
  /\ workers = [a \in StoreKinds |-> <<>>]
  /\ result = [a \in StoreKinds |-> NoResult]
  /\ hist = [a \in StoreKinds |-> NoHist]
  /\ crashStuck = {}
  /\ execCalls = 0
  /\ rt = IdleRetry
  /\ currentUsername = "none"
  /\ dbLoaded = FALSE
  /\ lastOp = NoOp
  /\ storeCalls = 0
  /\ recipe = NewRecipe

\* the store file is absent, unreadable, or was written by saveDatabase();
\* the progress callback is the application's, which returns
InitSound ==
  /\ dbShape = "full"
  /\ files = [f \in Paths |-> Absent]
  /\ acked = [f \in Paths |-> loadDatabase(Absent)]
  /\ onProgress = "returns"

\* a limiter of its own, constructed with a configuration
InitRL ==
  /\ InitCommon
  /\ InitSound
  /\ rlConfig \in [maxPerMinute : {1, 2}, maxConcurrent : {1, 2}]
  /\ config = [concurrency |-> 2, maxRequestsPerMinute |-> 15, delayMs |-> 0]

\* the configurations tried: one worker or two, the default 70 requests per
\* minute or a cap of 1 that makes acquire() wait, with and without the delay
Configs ==
  {[concurrency |-> 1, maxRequestsPerMinute |-> 70, delayMs |-> 0],
   [concurrency |-> 2, maxRequestsPerMinute |-> 70, delayMs |-> 200],
   [concurrency |-> 2, maxRequestsPerMinute |-> 1, delayMs |-> 0]}

\* the application: the global limiter, and the configuration of the user
Init ==
  /\ InitCommon
  /\ InitSound
  /\ rlConfig = DefaultConfig
  /\ config \in Configs

Next ==
  \/ \E a \in Kinds, n \in 1..MaxTarget : ExecuteStart(a, n)
  \/ \E a \in Kinds : \E w \in 1..Len(workers[a]) : AcquireWake(a, w)
  \/ \E a \in Kinds : \E w \in 1..Len(workers[a]) : RecipeReturns(a, w)
  \/ \E a \in Kinds : \E w \in 1..Len(workers[a]) : RecipeThrows(a, w)
  \/ \E a \in Kinds : \E w \in 1..Len(workers[a]) : DelayDone(a, w)
  \/ Crash
  \/ Tick

Spec == Init /\ [][Next]_vars

\* the same run called again and again: every execute() of a kind is given the
\* same target count
NextSameTarget ==
  \/ \E a \in Kinds : ExecuteStart(a, MaxTarget)
  \/ \E a \in Kinds : \E w \in 1..Len(workers[a]) : AcquireWake(a, w)
  \/ \E a \in Kinds : \E w \in 1..Len(workers[a]) : RecipeReturns(a, w)
  \/ \E a \in Kinds : \E w \in 1..Len(workers[a]) : RecipeThrows(a, w)
  \/ \E a \in Kinds : \E w \in 1..Len(workers[a]) : DelayDone(a, w)
  \/ Crash
  \/ Tick

SpecSameTarget == Init /\ [][NextSameTarget]_vars

\* Any store file that parses, any progress callback, and configurations
\* whose concurrency or requests per minute is 0
Shapes == {"full", "noAchievements", "noOperations"}

Misconfigured ==
  {[concurrency |-> 0, maxRequestsPerMinute |-> 70, delayMs |-> 0],
   [concurrency |-> 2, maxRequestsPerMinute |-> 0, delayMs |-> 0]}

InitFaults ==
  /\ InitCommon
  /\ rlConfig = DefaultConfig
  /\ config \in Misconfigured \cup
                 {[concurrency |-> 2, maxRequestsPerMinute |-> 70, delayMs |-> 0],
                  [concurrency |-> 1, maxRequestsPerMinute |-> 70, delayMs |-> 200]}
  /\ dbShape \in Shapes
  /\ files = [f \in Paths |-> Absent]
  /\ acked = [f \in Paths |-> loadDatabase(Absent)]
  /\ onProgress \in {"returns", "mayThrow"}

\* one process, from its start on
NextFaults ==
  \/ \E a \in Kinds, n \in 1..MaxTarget : ExecuteStart(a, n)
  \/ \E a \in Kinds : \E w \in 1..Len(workers[a]) : AcquireWake(a, w)
  \/ \E a \in Kinds : \E w \in 1..Len(workers[a]) : RecipeReturns(a, w)
  \/ \E a \in Kinds : \E w \in 1..Len(workers[a]) : RecipeThrows(a, w)
  \/ \E a \in Kinds : \E w \in 1..Len(workers[a]) : DelayDone(a, w)
  \/ Tick

SpecFaults == InitFaults /\ [][NextFaults]_vars

----------------------------------------------------------------------------
(* Several achievements executed in parallel by ExecuteScreen: each is one  *)
(* execute() with the configuration of the user, all on the one limiter of  *)
(* getRateLimiter()                                                         *)

\* a cap of one slot, and a cap of three operations per minute
SharedConfigs ==
  {[concurrency |-> 1, maxRequestsPerMinute |-> 70, delayMs |-> 0],
   [concurrency |-> 2, maxRequestsPerMinute |-> 3, delayMs |-> 0]}

\* the counts selected: with three operations per minute, the four
\* operations of two achievements need a second window and no third one
SelectedCounts == {1, 2}

InitShared ==
  /\ InitCommon
  /\ InitSound
  /\ rlConfig = DefaultConfig
  /\ config \in SharedConfigs

\* selections.map(...): every selected achievement is executed once, all of
\* them in the one synchronous pass over the selections
ExecuteSelected(a, n) ==
  /\ exec[a].pc = "idle"
  /\ now = 0
  /\ ExecuteStart(a, n)

NextShared ==
  \/ \E a \in StoreKinds, n \in SelectedCounts : ExecuteSelected(a, n)
  \/ \E a \in StoreKinds : \E w \in 1..Len(workers[a]) : AcquireWake(a, w)
  \/ \E a \in StoreKinds : \E w \in 1..Len(workers[a]) : RecipeReturns(a, w)
  \/ Tick

SpecShared == InitShared /\ [][NextShared]_vars

\* worker w of kind a is inside its recipe step
InRecipe(a, w) == w <= Len(workers[a]) /\ workers[a][w].pc = "recipe"

\* the timer of worker w's acquire() has fired and its poll can be run
Due(a, w) ==
  /\ w <= Len(workers[a])
  /\ workers[a][w].pc = "sleep"
  /\ now >= workers[a][w].wake
  /\ canProceed(requestTimestamps, activeRequests, rlConfig, now) \/ polls < MaxPolls

\* time goes on (weak fairness of Tick); every recipe step comes to its end
\* and the event loop runs every timer that is due: these are the weak
\* fairness of RecipeReturns and of AcquireWake, each of which is enabled
\* exactly where InRecipe resp. Due holds and disabled by its own step
FairShared ==
  /\ SpecShared
  /\ WF_vars(Tick)
  /\ \A a \in StoreKinds : \A w \in 1..2 :
       /\ []<>~InRecipe(a, w)
       /\ []<>~Due(a, w)

----------------------------------------------------------------------------
(* The recipe of one workflow instance: executeOperation(number) awaits    *)
(* initialize() and then creates the branch, the commit and the pull       *)
(* request.  The pool of runWithConcurrency has config.concurrency workers *)
(* and hands out the operations in their order.                            *)

InFlightOps == {o \in Ops : recipe.pc[o] \in {"lookup", "create", "body"}}

\* executeOperation(number) is called; initialize() returns at once when the
\* flag is set, otherwise it calls getDefaultBranchSha and awaits it
ExecuteOperation(o) ==
  /\ recipe.pc[o] = "idle"
  /\ \A p \in Ops : p < o => recipe.pc[p] # "idle"
  /\ Cardinality(InFlightOps) < config.concurrency
  /\ recipe' = [recipe EXCEPT
                  !.pc[o] = IF recipe.initialized THEN "body" ELSE "lookup"]
  /\ UNCHANGED <<now, rlVars, callerVars, storeVars, runVars, retryVars, diskVars>>

\* getDefaultBranchSha resolves: defaultBranch is assigned and
\* initAchievementsFile is called and awaited
LookupReturns(o, branch) ==
  /\ recipe.pc[o] = "lookup"
  /\ recipe' = [recipe EXCEPT !.defaultBranch = branch, !.pc[o] = "create"]
  /\ UNCHANGED <<now, rlVars, callerVars, storeVars, runVars, retryVars, diskVars>>

\* initAchievementsFile resolves: the file exists, the flag is set, and the
\* operation goes on with its branch
CreateReturns(o) ==
  /\ recipe.pc[o] = "create"
  /\ recipe' = [recipe EXCEPT !.initialized = TRUE,
                              !.inits = recipe.inits + 1,
                              !.pc[o] = "body"]
  /\ UNCHANGED <<now, rlVars, callerVars, storeVars, runVars, retryVars, diskVars>>

\* an awaited GitHub call of initialize() rejects: executeOperation throws
\* before the flag is set
InitializeThrows(o) ==
  /\ recipe.pc[o] \in {"lookup", "create"}
  /\ recipe' = [recipe EXCEPT !.pc[o] = "failed"]
  /\ UNCHANGED <<now, rlVars, callerVars, storeVars, runVars, retryVars, diskVars>>

\* the rest of executeOperation ends: it returns its pull request or throws
OperationSettles(o, ok) ==
  /\ recipe.pc[o] = "body"
  /\ recipe' = [recipe EXCEPT !.pc[o] = IF ok THEN "done" ELSE "failed"]
  /\ UNCHANGED <<now, rlVars, callerVars, storeVars, runVars, retryVars, diskVars>>

\* the configurations whose limiter grants every operation of the instance
\* within the first minute, so that the pool alone decides what runs at once
InitRecipe ==
  /\ InitCommon
  /\ InitSound
  /\ rlConfig = DefaultConfig
  /\ config \in {c \in Configs : c.maxRequestsPerMinute >= MaxOps}

NextRecipe ==
  \/ \E o \in Ops : ExecuteOperation(o)
  \/ \E o \in Ops, branch \in Branches : LookupReturns(o, branch)
  \/ \E o \in Ops : CreateReturns(o)
  \/ \E o \in Ops : InitializeThrows(o)
  \/ \E o \in Ops, ok \in BOOLEAN : OperationSettles(o, ok)

SpecRecipe == InitRecipe /\ [][NextRecipe]_vars

----------------------------------------------------------------------------
(* One call of retry(fn, options), directly or through request() *)

\* timing.ts 97-99: the loop body calls fn; the k-th call would return k
Invoke(r, t) == [r EXCEPT !.pc = "inFn", !.calls = Append(r.calls, t)]

\* timing.ts 100-112: the catch block, for one value of the jitter
CatchNext(r, e, t, jitter) ==
  IF giveUp(r.attempt, r.maxRetries, r.policy, e)
    THEN [r EXCEPT !.pc = "rejected", !.error = e]
    ELSE LET delayMs == getBackoffDelay(r.attempt, r.baseDelay, jitter) IN
         [r EXCEPT !.pc = "backoff", !.error = e,
                   !.observed = Append(r.observed, [attempt |-> r.attempt + 1, error |-> e]),
                   !.waits = Append(r.waits, [attempt |-> r.attempt, delay |-> delayMs]),
                   !.wake = t + delayMs]

\* retry(fn, {maxRetries, baseDelay, shouldRetry}) is called, or
\* request(operation)
RetryCall(maxRetries, baseDelay, policy, viaRequest) ==
  /\ rt.pc = "idle"
  /\ rt' = Invoke([IdleRetry EXCEPT
                     !.maxRetries = IF viaRequest THEN RequestMaxRetries ELSE maxRetries,
                     !.baseDelay = IF viaRequest THEN RequestBaseDelay ELSE baseDelay,
                     !.policy = IF viaRequest THEN "transport" ELSE policy,
                     !.viaRequest = viaRequest], now)
  /\ UNCHANGED <<now, rlVars, callerVars, storeVars, runVars, diskVars, recipeVars>>

\* fn returns: retry returns its value
FnReturns ==
  /\ rt.pc = "inFn"
  /\ rt' = [rt EXCEPT !.pc = "returned", !.outcome = Len(rt.calls)]
  /\ UNCHANGED <<now, rlVars, callerVars, storeVars, runVars, diskVars, recipeVars>>

\* the operation throws e.  In request() a RateLimitError whose reset is
\* less than a minute ahead is thrown on only after delay(waitMs + 1000).
FnThrows(e) ==
  /\ rt.pc = "inFn"
  /\ LET r == [rt EXCEPT !.thrown = Append(rt.thrown, [error |-> e, at |-> now])] IN
     IF /\ rt.viaRequest
        /\ e.cls = "RateLimitError"
        /\ e.resetIn > 0
        /\ e.resetIn < ResetHorizonMs
       THEN rt' = [r EXCEPT !.pc = "limitWait", !.error = e,
                            !.wake = now + e.resetIn + ResetExtraMs]
       ELSE \E jitter \in Jitters : rt' = CatchNext(r, e, now, jitter)
  /\ UNCHANGED <<now, rlVars, callerVars, storeVars, runVars, diskVars, recipeVars>>

\* the delay inside request() is over: the error reaches retry's catch
LimitWaitDone ==
  /\ rt.pc = "limitWait"
  /\ now' = rt.wake
  /\ \E jitter \in Jitters : rt' = CatchNext(rt, rt.error, rt.wake, jitter)
  /\ UNCHANGED <<rlVars, callerVars, storeVars, runVars, diskVars, recipeVars>>

\* backoff() is over: attempt++, and fn is called again
BackoffDone ==
  /\ rt.pc = "backoff"
  /\ now' = rt.wake
  /\ rt' = Invoke([rt EXCEPT !.attempt = rt.attempt + 1], rt.wake)
  /\ UNCHANGED <<rlVars, callerVars, storeVars, runVars, diskVars, recipeVars>>

InitRetry ==
  /\ InitCommon
  /\ InitSound
  /\ rlConfig = DefaultConfig
  /\ config = [concurrency |-> 2, maxRequestsPerMinute |-> 15, delayMs |-> 0]

NextRetry ==
  \/ \E maxRetries \in 0..MaxRetries, baseDelay \in BaseDelays,
        policy \in {"always", "transport"}, viaRequest \in BOOLEAN :
          RetryCall(maxRetries, baseDelay, policy, viaRequest)
  \/ FnReturns
  \/ \E e \in ErrorValues : FnThrows(e)
  \/ LimitWaitDone
  \/ BackoffDone

SpecRetry == InitRetry /\ [][NextRetry]_vars

----------------------------------------------------------------------------
(* The store called directly: each action is one exported function of      *)
(* db/database.ts from its getDatabase() to its saveDatabase()              *)

\* the in-memory db
Mem ==
  [shape |-> dbShape,
   data |-> [achievements |-> achievements, operations |-> operations,
             nextOperationId |-> nextOperationId]]

\* getDatabase(): db, loaded first where it is null
getDatabase == IF dbLoaded THEN Mem ELSE loadDatabase(files[pathOf(currentUsername)])

SetMem(m) ==
  /\ dbShape' = m.shape
  /\ achievements' = m.data.achievements
  /\ operations' = m.data.operations
  /\ nextOperationId' = m.data.nextOperationId

\* JSON.stringify(db) in the file of the current path
Written(m) ==
  [files EXCEPT ![pathOf(currentUsername)] = [kind |-> "data", shape |-> m.shape, data |-> m.data]]

\* the process is gone: nothing is in memory
Stopped ==
  /\ SetMem(loadDatabase(Absent))
  /\ dbLoaded' = FALSE
  /\ currentUsername' = "none"

\* A store call, made one millisecond after the step before (new Date() is
\* now + 1), that leaves the db as m.  If it saves, writeFileSync writes
\* the file, or throws and the catch of saveDatabase() logs it (database.ts
\* 84-96), or the process stops while the file is half written.
Returns(op, id, arg, m, ret, saves) ==
  /\ storeCalls < MaxStoreCalls
  /\ storeCalls' = storeCalls + 1
  /\ now' = now + 1
  /\ \/ /\ files' = IF saves THEN Written(m) ELSE files
        /\ SetMem(m)
        /\ dbLoaded' = TRUE
        /\ acked' = [acked EXCEPT ![pathOf(currentUsername)] = m]
        /\ lastOp' = [op |-> op, id |-> id, arg |-> arg, ret |-> ret, threw |-> FALSE]
        /\ UNCHANGED currentUsername
     \/ /\ saves
        /\ UNCHANGED files
        /\ SetMem(m)
        /\ dbLoaded' = TRUE
        /\ acked' = [acked EXCEPT ![pathOf(currentUsername)] = m]
        /\ lastOp' = [op |-> op, id |-> id, arg |-> arg, ret |-> ret, threw |-> FALSE]
        /\ UNCHANGED currentUsername
     \/ /\ saves
        /\ files' = [files EXCEPT ![pathOf(currentUsername)] = Garbage]
        /\ Stopped
        /\ lastOp' = [NoOp EXCEPT !.op = "stop"]
        /\ UNCHANGED acked
  /\ UNCHANGED <<rlVars, callerVars, runVars, retryVars, recipeVars>>

\* A store call that throws a TypeError on a db without the field it reads
Throws(op, id, arg, m) ==
  /\ storeCalls < MaxStoreCalls
  /\ storeCalls' = storeCalls + 1
  /\ now' = now + 1
  /\ SetMem(m)
  /\ dbLoaded' = TRUE
  /\ lastOp' = [op |-> op, id |-> id, arg |-> arg, ret |-> 0, threw |-> TRUE]
  /\ UNCHANGED <<files, acked, currentUsername, rlVars, callerVars, runVars, retryVars, recipeVars>>

StoreUpsert(id, n) ==
  LET m == getDatabase IN
  IF m.shape = "noAchievements"
    THEN Throws("upsertAchievement", id, n, m)
    ELSE Returns("upsertAchievement", id, n,
                 [m EXCEPT !.data.achievements =
                    upsertAchievement(m.data.achievements, id, Tiers[n], n, now + 1)],
                 0, TRUE)

StoreStatus(id, status) ==
  LET m == getDatabase IN
  IF m.shape = "noAchievements"
    THEN Throws("updateAchievementStatus", id, 0, m)
    ELSE Returns("updateAchievementStatus", id, 0,
                 [m EXCEPT !.data.achievements =
                    updateAchievementStatus(m.data.achievements, id, status, now + 1)],
                 0, id \in DOMAIN m.data.achievements)

StoreProgress(id, completedCount) ==
  LET m == getDatabase IN
  IF m.shape = "noAchievements"
    THEN Throws("updateAchievementProgress", id, completedCount, m)
    ELSE Returns("updateAchievementProgress", id, completedCount,
                 [m EXCEPT !.data.achievements =
                    updateAchievementProgress(m.data.achievements, id, completedCount, now + 1)],
                 0, id \in DOMAIN m.data.achievements)

\* database.nextOperationId++ comes before database.operations.push()
StoreCreate(id, operationNumber) ==
  LET m == getDatabase
      m1 == [m EXCEPT !.data.nextOperationId = m.data.nextOperationId + 1]
  IN IF m.shape # "full"
       THEN Throws("createOperation", id, operationNumber, m1)
       ELSE Returns("createOperation", id, operationNumber,
                    [m1 EXCEPT !.data.operations =
                       createOperation(m.data.operations, m.data.nextOperationId, id,
                                       operationNumber)],
                    m.data.nextOperationId, TRUE)

StoreUpdate(operationId, status) ==
  LET m == getDatabase IN
  IF m.shape # "full"
    THEN Throws("updateOperation", "none", operationId, m)
    ELSE Returns("updateOperation", "none", operationId,
                 [m EXCEPT !.data.operations =
                    updateOperation(m.data.operations, operationId, status)],
                 0, \E i \in 1..Len(m.data.operations) : m.data.operations[i].id = operationId)

StoreReset(id) ==
  LET m == getDatabase IN
  IF m.shape # "full"
    THEN Throws("resetStuckOperations", id, 0, m)
    ELSE Returns("resetStuckOperations", id, 0,
                 [m EXCEPT !.data.operations = resetStuckOperations(m.data.operations, id)],
                 resetCount(m.data.operations, id),
                 resetCount(m.data.operations, id) > 0)

\* a read, such as getAchievement(): getDatabase() and nothing else
StoreRead ==
  /\ ~dbLoaded
  /\ SetMem(getDatabase)
  /\ dbLoaded' = TRUE
  /\ lastOp' = [NoOp EXCEPT !.op = "read"]
  /\ UNCHANGED <<now, files, acked, currentUsername, storeCalls, rlVars, callerVars, runVars,
                 retryVars, recipeVars>>

\* setDatabaseUser(username): the db of the user before is saved, then dropped
SetDatabaseUser(username) ==
  /\ username # currentUsername
  /\ IF dbLoaded /\ currentUsername # "none"
       THEN files' = Written(Mem) \/ UNCHANGED files
       ELSE UNCHANGED files
  /\ currentUsername' = username
  /\ SetMem(loadDatabase(Absent))
  /\ dbLoaded' = FALSE
  /\ lastOp' = [NoOp EXCEPT !.op = "setDatabaseUser"]
  /\ UNCHANGED <<now, acked, storeCalls, rlVars, callerVars, runVars, retryVars, recipeVars>>

\* the process stops between two store calls and is started again
ProcessStop ==
  /\ dbLoaded \/ currentUsername # "none"
  /\ Stopped
  /\ lastOp' = [NoOp EXCEPT !.op = "stop"]
  /\ UNCHANGED <<now, files, acked, storeCalls, rlVars, callerVars, runVars, retryVars, recipeVars>>

\* one user has a file of an earlier run, no file is there for the default
\* path, and the file of the other user is not JSON or JSON of another shape
InitStore ==
  /\ InitCommon
  /\ rlConfig = DefaultConfig
  /\ config = [concurrency |-> 2, maxRequestsPerMinute |-> 15, delayMs |-> 0]
  /\ dbShape = "full"
  /\ onProgress = "returns"
  /\ files \in {[f \in Paths |-> IF f = "bob" THEN x ELSE IF f = "alice" THEN Populated ELSE Absent] :
                   x \in {Garbage, NoAchievementsFile, NoOperationsFile}}
  /\ acked = [f \in Paths |-> loadDatabase(files[f])]

NextStore ==
  \/ \E n \in 1..2 : StoreUpsert("pull-shark", n)
  \/ StoreStatus("pull-shark", "completed")
  \/ StoreProgress("pull-shark", 2)
  \/ \E id \in StoreKinds : StoreCreate(id, 1)
  \/ StoreUpdate(1, "completed")
  \/ StoreReset("pull-shark")
  \/ StoreRead
  \/ \E username \in Users : SetDatabaseUser(username)
  \/ ProcessStop

SpecStore == InitStore /\ [][NextStore]_vars

NextRL ==
  \/ \E c \in Callers : RLAcquire(c)
  \/ \E c \in Callers : RLRelease(c)
  \/ Tick
  \/ Pass

SpecRL == InitRL /\ [][NextRL]_vars

----------------------------------------------------------------------------
\* C1: the active-count never exceeds the configured max-concurrent value, and
\* it counts exactly the clients between their acquire() and their release().
ConcurrencyBound ==
  /\ activeRequests <= rlConfig.maxConcurrent
  /\ activeRequests = Cardinality({c \in Callers : callerPc[c] = "holding"})

\* every slot is taken, one of them at this very instant, while another
\* client polled at the same instant and found none left
ConcurrencyBoundWitness ==
  /\ activeRequests = rlConfig.maxConcurrent
  /\ Len(grants) > 0 /\ grants[Len(grants)] = now
  /\ \E c \in Callers :
       /\ callerPc[c] = "waiting"
       /\ callerWake[c] = now + ConcurrentWaitMs

\* C2: of any maxPerMinute + 1 acquire() completions, the last one comes at
\* least 60 seconds after the first, so that no interval of 60 seconds (closed
\* on the left, open on the right) holds more than maxPerMinute completions.
RateWindowBound ==
  \A i, j \in 1..Len(grants) :
    j - i >= rlConfig.maxPerMinute => grants[j] - grants[i] >= WindowMs

RateWindowBoundWitness ==
  /\ rlConfig.maxPerMinute = 2
  /\ Len(grants) = 3
  /\ grants[3] - grants[1] = WindowMs
  /\ grants[2] > grants[1]

----------------------------------------------------------------------------
(* Properties of execute() *)

\* execute() of kind a has returned its result
Returned(a) == exec[a].pc = "done" /\ result[a].returned

\* C3: the sequence numbers for which execute() starts a recipe step are
\* those of 1..T without a completed record before the call: never another
\* one while it runs, and all of them once it has returned.
ResumeCorrectness ==
  \A a \in Kinds :
    /\ exec[a].pc = "running" =>
         hist[a].attempted \subseteq (1..exec[a].targetCount) \ hist[a].preCompleted
    /\ Returned(a) =>
         hist[a].attempted = (1..result[a].totalOperations) \ hist[a].preCompleted

ResumeCorrectnessWitness ==
  \E a \in Kinds :
    /\ Returned(a)
    /\ hist[a].preCompleted # {}
    /\ hist[a].attempted # {}

\* C4, as stated: a record that was in_progress when the process
\* stopped is pending from the start of the next execute() on, and its
\* sequence number has been attempted when that execute() returns.
CrashRecoveryAnyTarget ==
  \A a \in Kinds : \A i \in 1..Len(operations) :
    (exec[a].pc # "idle" /\ operations[i].id \in hist[a].stuck) =>
      /\ operations[i].status = "pending"
      /\ Returned(a) => operations[i].operationNumber \in hist[a].attempted

\* C4, amended: ... and its sequence number has been attempted when that
\* execute() returns, provided it is not above the target count of that call.
CrashRecovery ==
  \A a \in Kinds : \A i \in 1..Len(operations) :
    (exec[a].pc # "idle" /\ operations[i].id \in hist[a].stuck) =>
      /\ operations[i].status = "pending"
      /\ (Returned(a) /\ operations[i].operationNumber <= result[a].totalOperations) =>
           operations[i].operationNumber \in hist[a].attempted

CrashRecoveryWitness ==
  \E a \in Kinds : \E i \in 1..Len(operations) :
    /\ Returned(a)
    /\ operations[i].id \in hist[a].stuck
    /\ operations[i].status = "pending"
    /\ operations[i].operationNumber \in hist[a].attempted

\* C5: the returned completedOperations is the prior completed count plus the
\* successes of this call, and the run is completed, and the result a
\* success, exactly when that value equals the target count.
IdempotentAggregation ==
  \A a \in Kinds :
    Returned(a) =>
      /\ result[a].completedOperations =
           Cardinality(hist[a].preCompleted) + Cardinality(hist[a].succeeded)
      /\ achievements[a].status = "completed" <=>
           result[a].completedOperations = result[a].totalOperations
      /\ result[a].success <=>
           result[a].completedOperations = result[a].totalOperations
      /\ achievements[a].status \in {"completed", "failed"}

\* C6: the persisted completed-count never exceeds the persisted target
\* count, and the returned completedOperations never exceeds totalOperations.
CompletedNeverExceedsTarget ==
  \A a \in Kinds :
    /\ a \in DOMAIN achievements =>
         achievements[a].completedCount <= achievements[a].targetCount
    /\ result[a].returned => result[a].completedOperations <= result[a].totalOperations

\* C7: once execute() has returned, the persisted status is completed exactly
\* when the persisted completed-count equals the target count.
StatusIffCount ==
  \A a \in Kinds :
    Returned(a) =>
      (achievements[a].status = "completed" <=>
         achievements[a].completedCount = achievements[a].targetCount)

\* C8: at most one Operation record with status completed per sequence number
\* of a kind.
AtMostOneCompleted ==
  \A i, j \in 1..Len(operations) :
    (/\ operations[i].status = "completed"
     /\ operations[j].status = "completed"
     /\ operations[i].achievementId = operations[j].achievementId
     /\ operations[i].operationNumber = operations[j].operationNumber) => i = j

AtMostOneCompletedWitness ==
  \E i, j \in 1..Len(operations) :
    /\ i # j
    /\ operations[i].achievementId = operations[j].achievementId
    /\ operations[i].operationNumber = operations[j].operationNumber
    /\ operations[i].status = "pending"
    /\ operations[j].status = "completed"

\* C9: every error entry is labelled with the sequence number of the
\* operation that failed.
ErrorLabelsAreSequenceNumbers ==
  \A a \in Kinds :
    Returned(a) =>
      {result[a].errors[i].operation : i \in 1..Len(result[a].errors)} = hist[a].failedOps

\* C10: after a normal return the errors list has one entry per task that
\* failed in this call, in ascending task order, and completedOperations plus
\* the number of errors is the prior completed count plus the tasks dispatched.
ErrorsPerFailedTask ==
  \A a \in Kinds :
    Returned(a) =>
      LET errors == result[a].errors IN
      /\ Len(errors) = Cardinality(hist[a].failed)
      /\ {errors[i].operation - 1 : i \in 1..Len(errors)} = hist[a].failed
      /\ \A i, j \in 1..Len(errors) : i < j => errors[i].operation < errors[j].operation
      /\ result[a].completedOperations + Len(errors) =
           Cardinality(hist[a].preCompleted) + Cardinality(hist[a].attempted)

ErrorsPerFailedTaskWitness ==
  \E a \in Kinds :
    /\ Returned(a)
    /\ Len(result[a].errors) = 2
    /\ hist[a].failed = {0, 1}

----------------------------------------------------------------------------
(* Properties of runWithConcurrency, as execute() calls it: the tasks are *)
(* hist[a].tasks, submitted with the indexes 0..N-1                        *)

\* C13: whatever tasks throw, the runner does not reject; once it has
\* resolved every task has been invoked, and for each index i it returns one
\* entry: success false with the error thrown if task i threw, success true
\* with the value of task i otherwise.
TaskFailuresAreRecorded ==
  \A a \in Kinds :
    LET h == hist[a]
        N == Len(h.tasks)
    IN /\ exec[a].pc \notin {"caught", "rejected"}
       /\ h.resolved =>
            /\ {h.claimed[k] : k \in 1..Len(h.claimed)} = 0..(N - 1)
            /\ Len(h.runner) = N
            /\ \A i \in 0..(N - 1) :
                 \E k \in 1..N :
                   /\ h.runner[k].index = i
                   /\ IF i \in h.failed
                        THEN ~h.runner[k].success /\ <<i, h.runner[k].error>> \in h.thrown
                        ELSE h.runner[k].success /\ h.runner[k].result = h.tasks[i + 1]

\* two tasks threw different errors
TaskFailuresAreRecordedWitness ==
  \E a \in Kinds :
    /\ hist[a].resolved
    /\ hist[a].thrown = {<<0, "bang">>, <<1, "boom">>}

\* C14: the array the runner returns is in submission order: its entry
\* number i (from 0) has index i and is the outcome of task i.
ResultsInSubmissionOrder ==
  \A a \in Kinds :
    LET h == hist[a] IN
    h.resolved =>
      \A k \in 1..Len(h.runner) :
        /\ h.runner[k].index = k - 1
        /\ h.runner[k].success <=> (k - 1) \in h.succeeded
        /\ h.runner[k].success => h.runner[k].result = h.tasks[k]

\* task 1 settled before task 0, with another outcome
ResultsInSubmissionOrderWitness ==
  \E a \in Kinds :
    /\ hist[a].resolved
    /\ hist[a].released = <<1, 0>>
    /\ hist[a].succeeded = {1}
    /\ hist[a].failed = {0}

\* C15: the indexes are claimed one by one in submission order, none twice
\* and none skipped, all of them once the runner has resolved; the tasks
\* invoked and not yet settled are never more than the concurrency limit nor
\* more than the number of tasks.
EachTaskClaimedOnce ==
  \A a \in Kinds :
    LET h == hist[a]
        inFlight == Len(h.claimed) - Len(h.released)
    IN /\ \A k \in 1..Len(h.claimed) : h.claimed[k] = k - 1
       /\ Len(h.claimed) <= Len(h.tasks)
       /\ h.resolved => Len(h.claimed) = Len(h.tasks)
       /\ inFlight >= 0
       /\ inFlight <= h.concurrency
       /\ inFlight <= Len(h.tasks)

\* more tasks than workers: the one worker is at its second task
EachTaskClaimedOnceWitness ==
  \E a \in Kinds :
    /\ hist[a].concurrency = 1
    /\ Len(hist[a].tasks) = 2
    /\ hist[a].claimed = <<0, 1>>
    /\ hist[a].released = <<0>>

\* C16: the k-th call of the progress callback carries (k, N) and comes when
\* k tasks have settled; there are never more than N calls, and exactly N
\* once the runner has resolved.
ProgressCallbackCounts ==
  \A a \in Kinds :
    LET h == hist[a]
        N == Len(h.tasks)
    IN /\ \A k \in 1..Len(h.calls) :
            /\ h.calls[k].done = k
            /\ h.calls[k].total = N
            /\ h.calls[k].settled = k
       /\ Len(h.calls) <= N
       /\ h.resolved => Len(h.calls) = N
       /\ Len(h.calls) = Len(h.released)

\* two calls made, the first after a failure, the second after a success
ProgressCallbackCountsWitness ==
  \E a \in Kinds :
    /\ hist[a].resolved
    /\ Len(hist[a].calls) = 2
    /\ hist[a].calls[1].succeeded = 0
    /\ hist[a].calls[2].succeeded = 1

----------------------------------------------------------------------------
(* The tasks of execute() *)

\* C17: a task gives its slot back once, after it took it, whether its recipe
\* step returned or threw; when all tasks have settled every slot taken has
\* been given back and the active-count is what it was before the run.
SlotsReleasedOnce ==
  \A a \in Kinds :
    LET h == hist[a] IN
    /\ \A j, k \in 1..Len(h.released) : h.released[j] = h.released[k] => j = k
    /\ {h.released[k] : k \in 1..Len(h.released)}
         \subseteq {h.acquired[k] : k \in 1..Len(h.acquired)}
    /\ {h.released[k] : k \in 1..Len(h.released)} = h.succeeded \cup h.failed
    /\ activeRequests = h.activeBefore + Len(h.acquired) - Len(h.released)
    /\ h.resolved =>
         /\ Len(h.released) = Len(h.acquired)
         /\ activeRequests = h.activeBefore

\* a run with a task that threw and a task that returned has ended
SlotsReleasedOnceWitness ==
  \E a \in Kinds :
    /\ hist[a].resolved
    /\ hist[a].failed # {}
    /\ hist[a].succeeded # {}
    /\ Len(hist[a].released) = 2
    /\ activeRequests = 0

\* C18: the record of an attempt that has finished is completed if the recipe
\* step returned and failed if it threw; when execute() has returned no
\* record of the kind is in_progress.
NoRecordLeftInProgress ==
  \A a \in Kinds :
    Returned(a) =>
      \A i \in 1..Len(operations) :
        operations[i].achievementId = a => operations[i].status # "in_progress"

\* C20: every value the progress callback stores and reports is the prior
\* completed count plus the number of tasks that have succeeded so far, and
\* the values of one run never decrease.
ProgressIsPriorPlusSucceeded ==
  \A a \in Kinds :
    LET h == hist[a] IN
    /\ \A k \in 1..Len(h.calls) :
         h.calls[k].completed = Cardinality(h.preCompleted) + h.calls[k].succeeded
    /\ \A j, k \in 1..Len(h.calls) : j < k => h.calls[j].completed <= h.calls[k].completed

----------------------------------------------------------------------------
(* execute() with a store file of another shape, a progress callback that *)
(* throws, a limiter that cannot grant                                     *)

\* C11: when a store call of the setup steps fails, execute() dispatches no
\* task and resolves with a result whose success is false and whose errors
\* hold the message; it never rejects.
SetupFailureIsReturned ==
  \A a \in Kinds :
    /\ exec[a].pc # "rejected"
    /\ (dbShape # "full" /\ exec[a].pc # "idle") =>
         /\ result[a].returned
         /\ ~result[a].success
         /\ Len(result[a].errors) > 0
         /\ hist[a].attempted = {}

MisconfiguredLimiterAborts ==
  \A a \in Kinds :
    ~canProceed(<<>>, 0, rlConfig, now) =>
      /\ \A w \in 1..Len(workers[a]) : workers[a][w].pc # "sleep"
      /\ (dbShape = "full" /\ exec[a].pc # "idle" /\ hist[a].preCompleted = {}) =>
           result[a].returned /\ ~result[a].success

----------------------------------------------------------------------------
(* Properties of retry() and of request() *)

\* C21: fn is invoked at most maxRetries + 1 times; retry returns the value
\* of the first invocation that succeeded, which is the last one made; after
\* maxRetries + 1 failed invocations it rejects with the error of the last.
RetryBounded ==
  /\ Len(rt.calls) <= rt.maxRetries + 1
  /\ Len(rt.thrown) <= Len(rt.calls)
  /\ rt.pc = "returned" =>
       /\ rt.outcome = Len(rt.calls)
       /\ Len(rt.thrown) = Len(rt.calls) - 1
  /\ (rt.pc \notin {"idle", "returned", "rejected"} /\ Len(rt.thrown) = rt.maxRetries + 1) =>
       rt.pc = "limitWait"
  /\ (rt.pc = "rejected" /\ Len(rt.calls) = rt.maxRetries + 1) =>
       rt.error = rt.thrown[Len(rt.thrown)].error

\* every attempt was used and failed
RetryBoundedWitness ==
  /\ rt.pc = "rejected"
  /\ rt.maxRetries = 2
  /\ Len(rt.calls) = 3
  /\ rt.policy = "always"
  /\ rt.thrown[3].error.cls = "AuthenticationError"

\* C22: an error for which shouldRetry is false ends retry at the instant it
\* is thrown: it is the error retry rejects with, fn is not invoked again,
\* the observer was not called for it and no backoff was waited for it.
NonRetryableRejectsAtOnce ==
  \A k \in 1..Len(rt.thrown) :
    ~shouldRetry(rt.policy, rt.thrown[k].error) =>
      /\ k = Len(rt.thrown)
      /\ rt.pc = "rejected"
      /\ rt.error = rt.thrown[k].error
      /\ Len(rt.calls) = k
      /\ Len(rt.observed) = k - 1
      /\ Len(rt.waits) = k - 1
      /\ now = rt.thrown[k].at

\* a retried failure, then one that is not retried, with attempts left
NonRetryableRejectsAtOnceWitness ==
  /\ rt.pc = "rejected"
  /\ Len(rt.thrown) = 2
  /\ rt.maxRetries = 3
  /\ rt.thrown[1].error.cls = "NetworkError"
  /\ rt.thrown[2].error.cls = "AuthenticationError"

ResetTimeHonoured ==
  rt.viaRequest =>
    \A k \in 1..Len(rt.thrown) :
      (/\ rt.thrown[k].error.cls = "RateLimitError"
       /\ rt.thrown[k].error.resetIn > 0
       /\ k + 1 <= Len(rt.calls)) =>
        rt.calls[k + 1] >= rt.thrown[k].at + rt.thrown[k].error.resetIn

----------------------------------------------------------------------------
(* Claims about the store (SpecStore)                                      *)

\* a step in which the store call op returned
CallReturned(op) ==
  /\ storeCalls' = storeCalls + 1
  /\ lastOp'.op = op
  /\ ~lastOp'.threw

\* C25: upsertAchievement on an existing record changes only its tier, its
\* target count and its update time: completed count, status and creation
\* time stay, and no operation record is created, changed or deleted; where
\* the record is missing it is created with completed count 0 and status
\* pending.
UpsertKeepsProgress ==
  [][CallReturned("upsertAchievement") =>
       LET id == lastOp'.id
           before == getDatabase.data
       IN /\ operations' = before.operations
          /\ nextOperationId' = before.nextOperationId
          /\ DOMAIN achievements' = DOMAIN before.achievements \cup {id}
          /\ \A k \in DOMAIN before.achievements \ {id} :
               achievements'[k] = before.achievements[k]
          /\ achievements'[id].targetCount = lastOp'.arg
          /\ achievements'[id].tier = Tiers[lastOp'.arg]
          /\ achievements'[id].updatedAt = now'
          /\ IF id \in DOMAIN before.achievements
               THEN /\ achievements'[id].completedCount = before.achievements[id].completedCount
                    /\ achievements'[id].status = before.achievements[id].status
                    /\ achievements'[id].createdAt = before.achievements[id].createdAt
               ELSE /\ achievements'[id].completedCount = 0
                    /\ achievements'[id].status = "pending"
                    /\ achievements'[id].createdAt = now']_vars

\* an upsert has changed the tier of a record with progress, an earlier
\* creation time and operations
UpsertKeepsProgressWitness ==
  /\ lastOp.op = "upsertAchievement"
  /\ ~lastOp.threw
  /\ "pull-shark" \in DOMAIN achievements
  /\ achievements["pull-shark"].tier = Tiers[1]
  /\ achievements["pull-shark"].completedCount = 1
  /\ achievements["pull-shark"].status = "in_progress"
  /\ achievements["pull-shark"].createdAt < achievements["pull-shark"].updatedAt
  /\ Len(operations) = 2

\* C26: resetStuckOperations(kind) sets to pending exactly the operation
\* records of that kind that are in_progress and returns their number; every
\* other record is unchanged, and the same call made again at once returns 0
\* and changes nothing.
ResetStuckIsExact ==
  [][CallReturned("resetStuckOperations") =>
       LET id == lastOp'.id
           before == getDatabase.data
           stuck == {i \in 1..Len(before.operations) :
                       /\ before.operations[i].achievementId = id
                       /\ before.operations[i].status = "in_progress"}
       IN /\ Len(operations') = Len(before.operations)
          /\ \A i \in 1..Len(before.operations) :
               operations'[i] = IF i \in stuck
                                  THEN [before.operations[i] EXCEPT !.status = "pending"]
                                  ELSE before.operations[i]
          /\ lastOp'.ret = Cardinality(stuck)
          /\ achievements' = before.achievements
          /\ nextOperationId' = before.nextOperationId
          /\ (lastOp.op = "resetStuckOperations" /\ lastOp.id = id /\ ~lastOp.threw)
               => (lastOp'.ret = 0 /\ operations' = operations)]_vars

\* the reset has been called twice in a row on a store with a stuck record
\* of the kind and a stuck record of another kind
ResetStuckIsExactWitness ==
  /\ lastOp.op = "resetStuckOperations"
  /\ lastOp.ret = 0
  /\ storeCalls = 2
  /\ Len(operations) = 2
  /\ operations[1].achievementId = "pull-shark"
  /\ operations[1].status = "pending"
  /\ operations[2].achievementId = "quickdraw"
  /\ operations[2].status = "in_progress"

\* a file that does not hold a store: not there, not JSON, or JSON without
\* the fields of Database
NotAStore(file) == file.kind # "data" \/ file.shape # "full"

\* C27: after a mutating store operation has returned the file holds the
\* in-memory state, so what a process started after a stop at any point
\* loads is the state after the last mutation that returned.
DurableCopyIsAcknowledged ==
  \A f \in Paths : loadDatabase(files[f]) = acked[f]

\* C28: loading a file that is unreadable or corrupt does not fail: the store
\* starts empty (no records, next id 1) and no operation after it fails.
CorruptFileStartsEmpty ==
  /\ (lastOp.op = "read" /\ NotAStore(files[pathOf(currentUsername)]))
       => Mem = loadDatabase(Absent)
  /\ ~lastOp.threw

\* C29: what is read while a user is selected is what the mutations made
\* while that user was selected left, whatever was done under other users in
\* between.
StorePerUser ==
  (dbLoaded /\ dbShape = "full") => Mem = acked[pathOf(currentUsername)]

----------------------------------------------------------------------------
(* Claims about the order of the steps of one task (Spec)                  *)

TaskOrder == <<"acquire", "create", "recipe", "complete", "delay", "release">>

PositionOf == [name \in {TaskOrder[p] : p \in 1..Len(TaskOrder)} |->
                 CHOOSE p \in 1..Len(TaskOrder) : TaskOrder[p] = name]

\* what a step comes after
Needs ==
  [name \in DOMAIN PositionOf |->
     CASE name = "acquire" -> {}
       [] name = "create" -> {"acquire"}
       [] name = "recipe" -> {"create"}
       [] name = "complete" -> {"recipe"}
       [] name = "delay" -> {"complete"}
       [] name = "release" -> {"acquire"}]

\* the steps of log are taken in the order of TaskOrder, none twice, and none
\* of the later ones without the one it comes after
InTaskOrder(log) ==
  /\ \A k \in 1..(Len(log) - 1) : PositionOf[log[k]] < PositionOf[log[k + 1]]
  /\ \A k \in 1..Len(log) : Needs[log[k]] \subseteq {log[j] : j \in 1..(k - 1)}

\* C30: within each task the order is acquire, create the record as
\* in_progress, recipe step, mark completed, delay, release; the recipe step
\* of an operation runs only while its task holds a slot and after its
\* in_progress record was stored, and a record is marked completed only
\* after its recipe step returned.
TaskStepsInOrder ==
  \A a \in Kinds :
    /\ \A index \in DOMAIN hist[a].steps : InTaskOrder(hist[a].steps[index].log)
    /\ \A w \in DOMAIN workers[a] :
         workers[a][w].pc = "recipe" =>
           /\ activeRequests > 0
           /\ \E j \in 1..Len(hist[a].acquired) : hist[a].acquired[j] = workers[a][w].index
           /\ ~\E j \in 1..Len(hist[a].released) : hist[a].released[j] = workers[a][w].index
           /\ \E i \in 1..Len(operations) :
                /\ operations[i].id = workers[a][w].operationId
                /\ operations[i].achievementId = a
                /\ operations[i].operationNumber = workers[a][w].opNum
                /\ operations[i].status = "in_progress"
    /\ \A index \in DOMAIN hist[a].steps, i \in 1..Len(operations) :
         (operations[i].id = hist[a].steps[index].operationId
            /\ operations[i].status = "completed")
           => \E k \in 1..Len(hist[a].steps[index].log) :
                hist[a].steps[index].log[k] = "complete"

\* one task went through all six steps and another one was released after
\* its recipe step threw
TaskStepsInOrderWitness ==
  \E a \in Kinds :
    /\ \E index \in DOMAIN hist[a].steps : hist[a].steps[index].log = TaskOrder
    /\ \E index \in DOMAIN hist[a].steps :
         hist[a].steps[index].log = <<"acquire", "create", "recipe", "release">>

----------------------------------------------------------------------------
(* Claims about the status of the run record                               *)

Terminal == {"completed", "failed"}

\* a task of the call is still waiting for a slot, in its recipe step or in
\* its delay
Unsettled(a) ==
  \E w \in 1..Len(workers[a]) : workers[a][w].pc \in {"sleep", "recipe", "delay"}

\* C31: the stored status of the run is in_progress from the first step of
\* execute() until all its tasks have settled; once execute() has returned it
\* is completed or failed; and a terminal status changes only in the step
\* that starts a new execute().
RunStatusLifecycle ==
  [][\A a \in Kinds :
       /\ (exec'[a].pc = "running" \/ Unsettled(a)')
            => (a \in DOMAIN achievements' /\ achievements'[a].status = "in_progress")
       /\ result'[a].returned
            => (a \in DOMAIN achievements' /\ achievements'[a].status \in Terminal)
       /\ (a \in DOMAIN achievements /\ achievements[a].status \in Terminal
             /\ achievements'[a].status # achievements[a].status)
            => (execCalls' = execCalls + 1
                  /\ (achievements'[a].status = "in_progress" \/ result'[a].returned))]_vars

----------------------------------------------------------------------------
(* Claims about the waits of the limiter (SpecRL)                          *)

\* the timestamps of the last 60 seconds
InWindow == {i \in 1..Len(requestTimestamps) : requestTimestamps[i] > now - 60000}

Oldest == requestTimestamps[CHOOSE i \in InWindow : \A j \in InWindow : i <= j]

\* client c polled in this step, found no slot and went to sleep
Blocked(c) == callerPc'[c] = "waiting" /\ callerWake'[c] # callerWake[c]

\* C32: a caller blocked while the window holds maxPerMinute timestamps waits
\* oldest + 60000 - now + 100 ms, which is not negative and after which the
\* oldest timestamp is out of the window; a caller blocked by the concurrency
\* cap alone waits 50 ms; a blocked caller always suspends before it polls
\* again.
WaitTimeRule ==
  [][\A c \in Callers :
       Blocked(c) =>
         LET wait == callerWake'[c] - now IN
         /\ wait > 0
         /\ Cardinality(InWindow) >= rlConfig.maxPerMinute
              => /\ wait = Oldest + 60000 - now + 100
                 /\ ~(Oldest > (now + wait) - 60000)
         /\ (Cardinality(InWindow) < rlConfig.maxPerMinute
               /\ activeRequests >= rlConfig.maxConcurrent)
              => wait = 50]_vars

\* one caller sleeps until the oldest timestamp, taken some time ago, leaves
\* the window, and another one polled while only the concurrency cap held
WaitTimeRuleWitness ==
  /\ Len(requestTimestamps) > 0
  /\ now > requestTimestamps[1]
  /\ \E c \in Callers :
       /\ callerPc[c] = "waiting"
       /\ callerWake[c] = requestTimestamps[1] + 60100
  /\ polls = 2

----------------------------------------------------------------------------
(* Claims about the backoff of retry (SpecRetry)                           *)

\* the bounds of the k-th backoff with base delay b
BackoffLow(k, b) == Min(b * Pow2(k), 60000)
BackoffHigh(k, b) == Min(b * Pow2(k) + 1000, 60000)

\* C33: the delay d waited after the k-th failed attempt (k = 0, 1, ...) with
\* base delay b satisfies min(b*2^k, 60000) <= d <= min(b*2^k + 1000, 60000):
\* it is never above 60000 ms, and the lower bound does not decrease with k.
BackoffWithinBounds ==
  \A i \in 1..Len(rt.waits) :
    LET k == rt.waits[i].attempt
        d == rt.waits[i].delay
    IN /\ k = i - 1
       /\ BackoffLow(k, rt.baseDelay) <= d
       /\ d <= BackoffHigh(k, rt.baseDelay)
       /\ d <= 60000
       /\ \A j \in 1..(i - 1) :
            BackoffLow(rt.waits[j].attempt, rt.baseDelay) <= BackoffLow(k, rt.baseDelay)
       /\ (~rt.viaRequest /\ Len(rt.calls) > i)
            => rt.calls[i + 1] - rt.thrown[i].at = d

\* the second backoff of a call with base delay 30000 was cut to the cap,
\* and the third attempt was made after it
BackoffWithinBoundsWitness ==
  /\ rt.baseDelay = 30000
  /\ Len(rt.waits) = 2
  /\ rt.waits[1].delay = 30999
  /\ rt.waits[2].delay = 60000
  /\ Len(rt.calls) = 3

----------------------------------------------------------------------------
(* Claims about achievements executed in parallel (SpecShared)             *)

\* the tasks between their acquire() and their release(), of every kind
InFlight ==
  UNION {{<<a, w>> : w \in {v \in 1..Len(workers[a]) :
                              workers[a][v].pc \in {"recipe", "delay"}}} :
         a \in StoreKinds}

\* C36: achievements executed in parallel share one limiter: the operations
\* in flight, summed over the running achievements, never exceed the
\* configured concurrency, and the operations started in any 60 seconds,
\* summed over them, never exceed the configured maximum per minute.
SharedLimiterBounds ==
  /\ Cardinality(InFlight) <= config.concurrency
  /\ \A i, j \in 1..Len(grants) :
       j - i >= config.maxRequestsPerMinute => grants[j] - grants[i] >= 60000

\* operations of both kinds are in flight up to the cap, the later one
\* started after a blocked poll, 60 seconds after the first of three
SharedLimiterBoundsWitness ==
  /\ config.concurrency = 2
  /\ \E w \in 1..Len(workers["pull-shark"]) : workers["pull-shark"][w].pc = "recipe"
  /\ \E w \in 1..Len(workers["quickdraw"]) : workers["quickdraw"][w].pc = "recipe"
  /\ polls > 0
  /\ Len(grants) = 4
  /\ grants[4] - grants[1] >= 60000

\* C34: with concurrency >= 1 and a maximum per minute >= 1, recipe steps
\* that come to an end and time that goes on, every task waiting in acquire()
\* is granted its slot and every execute() returns, also when several runs
\* share the limiter.
EveryExecuteReturns ==
  /\ \A a \in StoreKinds : (exec[a].pc = "running") ~> result[a].returned
  /\ \A a \in StoreKinds : \A w \in 1..2 :
       (w <= Len(workers[a]) /\ workers[a][w].pc = "sleep")
         ~> ~(w <= Len(workers[a]) /\ workers[a][w].pc = "sleep")

\* both achievements have returned, after tasks of them had to wait for a
\* slot
EveryExecuteReturnsWitness ==
  /\ \A a \in StoreKinds : result[a].returned /\ result[a].totalOperations = 2
  /\ polls > 0

(***************************************************************************)
(* C35: when execute() has returned its result no task of that call is     *)
(* still running: no worker of the run is waiting in acquire(), inside its *)
(* recipe step (holding a limiter slot) or in the delay after it, so no    *)
(* Operation record of the run is created or updated afterwards; also when *)
(* the progress callback throws.                                           *)
(***************************************************************************)
NoTaskOutlivesExecute ==
  \A a \in Kinds : result[a].returned => ~Unsettled(a)

(***************************************************************************)
(* C37: across successive execute() calls for one achievement kind and one *)
(* target count, with task failures and resumes in between, the persisted  *)
(* completed-count of the run never decreases.                             *)
(***************************************************************************)
CompletedCountNeverDecreases ==
  [][\A a \in Kinds :
       (a \in DOMAIN achievements /\ a \in DOMAIN achievements')
         => /\ achievements'[a].targetCount = achievements[a].targetCount
            /\ achievements'[a].completedCount >= achievements[a].completedCount]_vars

(***************************************************************************)
(* C38: in every result that execute() returns, from the normal path or    *)
(* from the catch block, completedOperations is the number of sequence     *)
(* numbers of the kind that have a completed Operation record in the store *)
(* at the moment of the return.                                            *)
(***************************************************************************)
ResultCountsCompletedRecords ==
  [][\A a \in Kinds :
       (result'[a].returned /\ result'[a] # result[a])
         => result'[a].completedOperations
              = Cardinality({operations'[i].operationNumber :
                   i \in {j \in 1..Len(operations') :
                            /\ operations'[j].achievementId = a
                            /\ operations'[j].status = "completed"}})]_vars

(***************************************************************************)
(* C39: once a sequence number of a run has a completed Operation record,  *)
(* no Operation record of that number is pending or in_progress, so that   *)
(* getPendingOperations(kind) is empty after a resumed run that completed  *)
(* every operation.                                                        *)
(***************************************************************************)
NoPendingUnderCompleted ==
  \A i, j \in 1..Len(operations) :
    (/\ operations[i].achievementId \in Kinds
     /\ operations[j].achievementId = operations[i].achievementId
     /\ operations[j].operationNumber = operations[i].operationNumber
     /\ operations[i].status = "completed")
      => operations[j].status \notin {"pending", "in_progress"}

(***************************************************************************)
(* C40: the one-time initialization of a recipe, guarded by the            *)
(* initialized flag, is performed at most once per workflow instance, also *)
(* when the first operations of the run execute concurrently.              *)
(***************************************************************************)
InitializedAtMostOnce == recipe.inits <= 1

============================================================================
